---- MODULE Spec2Model ----
(***************************************************************************)
(* Model of the Unicorn Ranch simulation engine (src/src/gameLogic.js).    *)
(*                                                                         *)
(* Numbers are exact fixed-point integers:                                 *)
(*   needs              in hundredths of a point   (100    is 10000)       *)
(*   dt, levelTime      in tenths of a second      (30 s   is 300)         *)
(*   growth/multipliers in tenths                  (1.0    is 10)          *)
(*   base rates, positions, level as whole numbers                         *)
(* so that  rate * multiplier * dt  (whole * tenths * tenths) is a number  *)
(* of hundredths and can be added to a need as the code adds it.  The      *)
(* rounding of IEEE doubles is not modelled.                               *)
(*                                                                         *)
(* JavaScript null is the string "null".                                   *)
(***************************************************************************)
EXTENDS Integers, FiniteSets, Sequences

VARIABLES
    state,      \* the GameState the caller holds / passes to the engine
    fn,         \* name of the engine function that was called last
    args,       \* its arguments other than the state: zone, dt, needType
    ret,        \* the value it returned
    elapsed,    \* sum of the dt of the ticks of the current level
    ticks,      \* number of ticks of the current level
    mem         \* the objects after the call and the reference it returned

vars == <<state, fn, args, ret, elapsed, ticks, mem>>

----------------------------------------------------------------------------
(* Bounds of the model *)

MaxLevel == 3       \* levels 1..MaxLevel
MaxTicks == 2       \* ticks per level in a session
HighLevel == 50     \* highest level the level-wise properties are evaluated at

----------------------------------------------------------------------------
(* Constants, gameLogic.js 10-19 *)

NeedTypes == {"hunger", "thirst", "energy", "fun"}

BASE_DRAIN == [hunger |-> 1, thirst |-> 1, energy |-> 1, fun |-> 1]

BASE_RECHARGE ==
    [lake  |-> [thirst |-> 6],
     field |-> [hunger |-> 6],
     barn  |-> [energy |-> 8],
     play  |-> [fun |-> 6]]

DRAIN_GROWTH == 8

RECHARGE_GROWTH == 3

LEVEL_TIME == 300

----------------------------------------------------------------------------
(* Utility functions *)

MathMax(a, b) == IF a >= b THEN a ELSE b

MathMin(a, b) == IF a <= b THEN a ELSE b

clampNoUpper(v, min, max) == MathMax(min, v)

clampNoLower(v, min, max) == MathMin(max, v)

clamp(v, min, max) == MathMax(min, MathMin(max, v))

----------------------------------------------------------------------------
(* Game state functions *)

createInitialState ==
    [x         |-> 15,
     y         |-> 25,
     needs     |-> [hunger |-> 10000, thirst |-> 10000,
                    energy |-> 10000, fun |-> 10000],
     level     |-> 1,
     levelTime |-> LEVEL_TIME,
     status    |-> "null",
     eaten     |-> FALSE,
     monster   |-> [x |-> -20, y |-> 50, chomp |-> FALSE]]

calculateDrainMultiplierOffByOne(level) == 10 + level * DRAIN_GROWTH

calculateDrainMultiplier(level) == 10 + (level - 1) * DRAIN_GROWTH

calculateRechargeMultiplierDrainGrowth(level) == 10 + (level - 1) * DRAIN_GROWTH

calculateRechargeMultiplierNoGrowth(level) == 10

calculateRechargeMultiplier(level) == 10 + (level - 1) * RECHARGE_GROWTH

applyDrain(needs, level, dt) ==
    LET drainMult == calculateDrainMultiplier(level)
    IN  [hunger |-> clamp(needs.hunger - BASE_DRAIN.hunger * drainMult * dt, 0, 10000),
         thirst |-> clamp(needs.thirst - BASE_DRAIN.thirst * drainMult * dt, 0, 10000),
         energy |-> clamp(needs.energy - BASE_DRAIN.energy * drainMult * dt, 0, 10000),
         fun    |-> clamp(needs.fun - BASE_DRAIN.fun * drainMult * dt, 0, 10000)]

applyRechargeFieldAlsoThirst(needs, zone, level, dt) ==
    LET rechargeMult == calculateRechargeMultiplier(level)
        u1 == IF zone \in {"lake", "field"}
              THEN [needs EXCEPT !.thirst =
                      clamp(@ + BASE_RECHARGE.lake.thirst * rechargeMult * dt, 0, 10000)]
              ELSE needs
        u2 == IF zone = "field"
              THEN [u1 EXCEPT !.hunger =
                      clamp(@ + BASE_RECHARGE.field.hunger * rechargeMult * dt, 0, 10000)]
              ELSE u1
        u3 == IF zone = "barn"
              THEN [u2 EXCEPT !.energy =
                      clamp(@ + BASE_RECHARGE.barn.energy * rechargeMult * dt, 0, 10000)]
              ELSE u2
        u4 == IF zone = "play"
              THEN [u3 EXCEPT !.fun =
                      clamp(@ + BASE_RECHARGE.play.fun * rechargeMult * dt, 0, 10000)]
              ELSE u3
    IN  u4

applyRecharge(needs, zone, level, dt) ==
    LET rechargeMult == calculateRechargeMultiplier(level)
        updated == needs
        u1 == IF zone = "lake"
              THEN [updated EXCEPT !.thirst =
                      clamp(@ + BASE_RECHARGE.lake.thirst * rechargeMult * dt, 0, 10000)]
              ELSE updated
        u2 == IF zone = "field"
              THEN [u1 EXCEPT !.hunger =
                      clamp(@ + BASE_RECHARGE.field.hunger * rechargeMult * dt, 0, 10000)]
              ELSE u1
        u3 == IF zone = "barn"
              THEN [u2 EXCEPT !.energy =
                      clamp(@ + BASE_RECHARGE.barn.energy * rechargeMult * dt, 0, 10000)]
              ELSE u2
        u4 == IF zone = "play"
              THEN [u3 EXCEPT !.fun =
                      clamp(@ + BASE_RECHARGE.play.fun * rechargeMult * dt, 0, 10000)]
              ELSE u3
    IN  u4

updateNeedsRechargeFirst(needs, zone, level, dt) ==
    LET recharged == applyRecharge(needs, zone, level, dt)
    IN  applyDrain(recharged, level, dt)

updateNeeds(needs, zone, level, dt) ==
    LET drained == applyDrain(needs, level, dt)
    IN  applyRecharge(drained, zone, level, dt)

checkGameOverStrict(needs) == \E k \in DOMAIN needs : needs[k] < 0

checkGameOverEvery(needs) == \A k \in DOMAIN needs : needs[k] <= 0

checkGameOver(needs) == \E k \in DOMAIN needs : needs[k] <= 0

checkLevelComplete(levelTime) == levelTime <= 0

createNextLevelStateFromInitial(currentState) ==
    [createInitialState EXCEPT !.level = currentState.level + 1]

createNextLevelState(currentState) ==
    [currentState EXCEPT
        !.level     = currentState.level + 1,
        !.needs     = [hunger |-> 10000, thirst |-> 10000,
                       energy |-> 10000, fun |-> 10000],
        !.levelTime = LEVEL_TIME,
        !.status    = "null",
        !.eaten     = FALSE,
        !.monster   = [x |-> -20, y |-> 50, chomp |-> FALSE]]

updateLevelTimerClamped(currentTime, dt) == MathMax(0, currentTime - dt)

updateLevelTimer(currentTime, dt) == currentTime - dt

createMonsterChaseStateIfGameOver(currentState) ==
    IF checkGameOver(currentState.needs)
    THEN [currentState EXCEPT
            !.eaten   = TRUE,
            !.monster = [x |-> -20, y |-> currentState.y, chomp |-> FALSE]]
    ELSE currentState

createMonsterChaseStateMidScreen(currentState) ==
    [currentState EXCEPT
        !.eaten   = TRUE,
        !.monster = [x |-> -20, y |-> 50, chomp |-> FALSE]]

createMonsterChaseState(currentState) ==
    [currentState EXCEPT
        !.eaten   = TRUE,
        !.monster = [x |-> -20, y |-> currentState.y, chomp |-> FALSE]]

(* The properties every object literal inherits from Object.prototype;     *)
(* each is a function, named here by a string.                             *)
ObjectPrototype ==
    [constructor    |-> "function Object",
     toString       |-> "function toString",
     valueOf        |-> "function valueOf",
     hasOwnProperty |-> "function hasOwnProperty"]

(* obj[key] for an object literal: own property, else inherited, else undefined *)
GetProperty(obj, key) ==
    IF key \in DOMAIN obj THEN obj[key]
    ELSE IF key \in DOMAIN ObjectPrototype THEN ObjectPrototype[key]
    ELSE "undefined"

(* v || null *)
OrNull(v) == IF v \in {"undefined", "null", ""} THEN "null" ELSE v

(* the labels are written without their emoji *)
getZoneDisplay(zone) ==
    LET displays == [lake |-> "Lake", field |-> "Field",
                     barn |-> "Barn", play |-> "Play"]
    IN  OrNull(GetProperty(displays, zone))

(* zoneToNeed[zone]: the mapped need, "undefined" for a tag that is no key *)
zoneToNeed(zone) ==
    LET table == [lake |-> "thirst", field |-> "hunger",
                  barn |-> "energy", play |-> "fun"]
    IN  IF zone \in DOMAIN table THEN table[zone] ELSE "undefined"

(* Object.values(obj)[0] of an object with one property *)
ObjectValues0(obj) == obj[CHOOSE k \in DOMAIN obj : TRUE]

calculateNetNeedChangeAnyZone(needType, zone, level, dt) ==
    LET drainMult    == calculateDrainMultiplier(level)
        rechargeMult == calculateRechargeMultiplier(level)
        change       == -BASE_DRAIN[needType] * drainMult * dt
    IN  IF zone /= "null" /\ zoneToNeed(zone) /= "undefined"
        THEN change + ObjectValues0(BASE_RECHARGE[zone]) * rechargeMult * dt
        ELSE change

calculateNetNeedChange(needType, zone, level, dt) ==
    LET drainMult    == calculateDrainMultiplier(level)
        rechargeMult == calculateRechargeMultiplier(level)
        change       == -BASE_DRAIN[needType] * drainMult * dt
    IN  IF zone /= "null" /\ zoneToNeed(zone) = needType
        THEN change + ObjectValues0(BASE_RECHARGE[zone]) * rechargeMult * dt
        ELSE change

----------------------------------------------------------------------------
(* The same functions on objects held by reference.  A heap is a sequence  *)
(* of objects and a reference is an index into it; a GameState object      *)
(* holds its needs and monster by reference.  Each function returns the    *)
(* heap it leaves and the reference it returns.                            *)

NoMem == [heap |-> <<>>, ref |-> 0]

(* the objects of a GameState: 1 the state, 2 its needs, 3 its monster *)
HeapOf(s) == <<[s EXCEPT !.needs = 2, !.monster = 3], s.needs, s.monster>>

(* the GameState value an object stands for *)
DerefState(h, a) ==
    [h[a] EXCEPT !.needs = h[h[a].needs], !.monster = h[h[a].monster]]

(* an object literal: a new object *)
New(h, obj) == [heap |-> Append(h, obj), ref |-> Len(h) + 1]

SpreadInPlace(h, a) == [heap |-> h, ref |-> a]

(* { ...obj }: a new object with the properties of obj *)
Spread(h, a) == New(h, h[a])

applyDrainRef(h, needs, level, dt) ==
    LET drainMult == calculateDrainMultiplier(level)
    IN  New(h, [hunger |-> clamp(h[needs].hunger - BASE_DRAIN.hunger * drainMult * dt, 0, 10000),
                thirst |-> clamp(h[needs].thirst - BASE_DRAIN.thirst * drainMult * dt, 0, 10000),
                energy |-> clamp(h[needs].energy - BASE_DRAIN.energy * drainMult * dt, 0, 10000),
                fun    |-> clamp(h[needs].fun - BASE_DRAIN.fun * drainMult * dt, 0, 10000)])

applyRechargeRef(h, needs, zone, level, dt) ==
    LET rechargeMult == calculateRechargeMultiplier(level)
        copy    == Spread(h, needs)
        updated == copy.ref
        h1 == IF zone = "lake"
              THEN [copy.heap EXCEPT ![updated].thirst =
                      clamp(@ + BASE_RECHARGE.lake.thirst * rechargeMult * dt, 0, 10000)]
              ELSE copy.heap
        h2 == IF zone = "field"
              THEN [h1 EXCEPT ![updated].hunger =
                      clamp(@ + BASE_RECHARGE.field.hunger * rechargeMult * dt, 0, 10000)]
              ELSE h1
        h3 == IF zone = "barn"
              THEN [h2 EXCEPT ![updated].energy =
                      clamp(@ + BASE_RECHARGE.barn.energy * rechargeMult * dt, 0, 10000)]
              ELSE h2
        h4 == IF zone = "play"
              THEN [h3 EXCEPT ![updated].fun =
                      clamp(@ + BASE_RECHARGE.play.fun * rechargeMult * dt, 0, 10000)]
              ELSE h3
    IN  [heap |-> h4, ref |-> updated]

updateNeedsRef(h, needs, zone, level, dt) ==
    LET drained == applyDrainRef(h, needs, level, dt)
    IN  applyRechargeRef(drained.heap, drained.ref, zone, level, dt)

createNextLevelStateRef(h, currentState) ==
    LET copy    == Spread(h, currentState)
        needs   == New(copy.heap, [hunger |-> 10000, thirst |-> 10000,
                                   energy |-> 10000, fun |-> 10000])
        monster == New(needs.heap, [x |-> -20, y |-> 50, chomp |-> FALSE])
    IN  [heap |-> [monster.heap EXCEPT ![copy.ref] =
                     [@ EXCEPT !.level     = h[currentState].level + 1,
                               !.needs     = needs.ref,
                               !.levelTime = LEVEL_TIME,
                               !.status    = "null",
                               !.eaten     = FALSE,
                               !.monster   = monster.ref]],
         ref  |-> copy.ref]

createMonsterChaseStateRef(h, currentState) ==
    LET copy    == Spread(h, currentState)
        monster == New(copy.heap, [x |-> -20, y |-> h[currentState].y, chomp |-> FALSE])
    IN  [heap |-> [monster.heap EXCEPT ![copy.ref] =
                     [@ EXCEPT !.eaten = TRUE, !.monster = monster.ref]],
         ref  |-> copy.ref]

----------------------------------------------------------------------------
(* A game session: the caller's loop over the engine, as the integration   *)
(* tests of gameLogic.test.js drive it.  The caller owns dt and the zone.  *)

Zones == {"lake", "field", "barn", "play", "null"}

TickDTs == {0, 5, 150, 200}

NoArgs == [zone |-> "null", dt |-> 0, needType |-> "null"]

Init ==
    /\ state = createInitialState
    /\ fn = "createInitialState"
    /\ args = NoArgs
    /\ ret = createInitialState
    /\ elapsed = 0
    /\ ticks = 0
    /\ mem = NoMem

(* one tick: newNeeds = updateNeeds(...), newTime = updateLevelTimer(...) *)
Tick ==
    /\ ticks < MaxTicks
    /\ \E zone \in Zones, dt \in TickDTs :
         LET newNeeds == updateNeeds(state.needs, zone, state.level, dt)
             newTime  == updateLevelTimer(state.levelTime, dt)
         IN  /\ state' = [state EXCEPT !.needs = newNeeds, !.levelTime = newTime]
             /\ fn' = "updateNeeds"
             /\ args' = [zone |-> zone, dt |-> dt, needType |-> "null"]
             /\ ret' = newNeeds
             /\ elapsed' = elapsed + dt
    /\ ticks' = ticks + 1
    /\ UNCHANGED mem

(* level progression: state = createNextLevelState(state) *)
NextLevel ==
    /\ state.level < MaxLevel
    /\ state' = createNextLevelState(state)
    /\ fn' = "createNextLevelState"
    /\ args' = NoArgs
    /\ ret' = state'
    /\ elapsed' = 0
    /\ ticks' = 0
    /\ UNCHANGED mem

(* game over flow: state = createMonsterChaseState(state) *)
MonsterChase ==
    /\ state' = createMonsterChaseState(state)
    /\ fn' = "createMonsterChaseState"
    /\ args' = NoArgs
    /\ ret' = state'
    /\ UNCHANGED <<elapsed, ticks, mem>>

Next == Tick \/ NextLevel \/ MonsterChase

Spec == Init /\ [][Next]_vars

----------------------------------------------------------------------------
(* The engine's functions called once on inputs drawn from bounded sets,   *)
(* as the unit tests call them.  state is the input and is left alone;     *)
(* fn, args and ret record the call.                                       *)

FnZones == Zones \cup {"cave"}

FnDTs == {0, 1, 10, 300}

InRangeVals == {0, 10, 5000, 10000}

OutRangeVals == {-100, 5000, 10100}

NeedsInputs == [NeedTypes -> InRangeVals] \cup [NeedTypes -> OutRangeVals]

(* inputs that vary the needs and the level *)
NeedsRichStates ==
    {[createInitialState EXCEPT !.needs = n, !.level = l] :
        n \in NeedsInputs, l \in 1..MaxLevel}

(* inputs that vary every other field of the GameState *)
StateRichStates ==
    [x         : {15, 75},
     y         : {25, 80},
     needs     : {[hunger |-> 10000, thirst |-> 10000, energy |-> 10000, fun |-> 10000],
                  [hunger |-> 2000, thirst |-> 3000, energy |-> 4000, fun |-> 5000],
                  [hunger |-> 0, thirst |-> 10000, energy |-> 10000, fun |-> 10000]},
     level     : 1..MaxLevel,
     levelTime : {LEVEL_TIME, 0, -50},
     status    : {"null", "nextlevel"},
     eaten     : BOOLEAN,
     monster   : {[x |-> -20, y |-> 50, chomp |-> FALSE],
                  [x |-> 50, y |-> 50, chomp |-> TRUE]}]

InitFn ==
    /\ state \in NeedsRichStates \cup StateRichStates
    /\ fn = "none"
    /\ args = NoArgs
    /\ ret = "none"
    /\ elapsed = 0
    /\ ticks = 0
    /\ mem = [heap |-> HeapOf(state), ref |-> 0]

(* a call that returns r and leaves the objects as m *)
CalledOn(name, a, r, m) ==
    /\ fn = "none"
    /\ fn' = name
    /\ args' = a
    /\ ret' = r
    /\ mem' = m
    /\ UNCHANGED <<state, elapsed, ticks>>

(* a call of a function that takes and returns no object *)
Called(name, a, r) == CalledOn(name, a, r, mem)

CallCreateInitialState ==
    Called("createInitialState", NoArgs, createInitialState)

CallCalculateDrainMultiplier ==
    Called("calculateDrainMultiplier", NoArgs, calculateDrainMultiplier(state.level))

CallCalculateRechargeMultiplier ==
    Called("calculateRechargeMultiplier", NoArgs,
           calculateRechargeMultiplier(state.level))

DisplayZones == FnZones \cup {"constructor", "toString"}

CallGetZoneDisplay ==
    \E zone \in DisplayZones :
        Called("getZoneDisplay", [NoArgs EXCEPT !.zone = zone], getZoneDisplay(zone))

CallApplyDrain ==
    \E dt \in FnDTs :
        CalledOn("applyDrain", [NoArgs EXCEPT !.dt = dt],
                 applyDrain(state.needs, state.level, dt),
                 applyDrainRef(mem.heap, 2, state.level, dt))

CallApplyRecharge ==
    \E zone \in FnZones, dt \in FnDTs :
        CalledOn("applyRecharge", [NoArgs EXCEPT !.zone = zone, !.dt = dt],
                 applyRecharge(state.needs, zone, state.level, dt),
                 applyRechargeRef(mem.heap, 2, zone, state.level, dt))

CallUpdateNeeds ==
    \E zone \in FnZones, dt \in FnDTs :
        CalledOn("updateNeeds", [NoArgs EXCEPT !.zone = zone, !.dt = dt],
                 updateNeeds(state.needs, zone, state.level, dt),
                 updateNeedsRef(mem.heap, 2, zone, state.level, dt))

CallCheckGameOver ==
    Called("checkGameOver", NoArgs, checkGameOver(state.needs))

CallCheckLevelComplete ==
    Called("checkLevelComplete", NoArgs, checkLevelComplete(state.levelTime))

CallCreateNextLevelState ==
    CalledOn("createNextLevelState", NoArgs, createNextLevelState(state),
             createNextLevelStateRef(mem.heap, 1))

CallUpdateLevelTimer ==
    \E dt \in FnDTs :
        Called("updateLevelTimer", [NoArgs EXCEPT !.dt = dt],
               updateLevelTimer(state.levelTime, dt))

CallCreateMonsterChaseState ==
    CalledOn("createMonsterChaseState", NoArgs, createMonsterChaseState(state),
             createMonsterChaseStateRef(mem.heap, 1))

CallCalculateNetNeedChange ==
    \E needType \in NeedTypes, zone \in FnZones, dt \in FnDTs :
        Called("calculateNetNeedChange",
               [zone |-> zone, dt |-> dt, needType |-> needType],
               calculateNetNeedChange(needType, zone, state.level, dt))

NextFn ==
    \/ CallCreateInitialState
    \/ CallApplyDrain
    \/ CallApplyRecharge
    \/ CallUpdateNeeds
    \/ CallCheckGameOver
    \/ CallCheckLevelComplete
    \/ CallCreateNextLevelState
    \/ CallUpdateLevelTimer
    \/ CallCreateMonsterChaseState
    \/ CallCalculateNetNeedChange
    \/ CallCalculateDrainMultiplier
    \/ CallCalculateRechargeMultiplier
    \/ CallGetZoneDisplay

SpecFn == InitFn /\ [][NextFn]_vars

----------------------------------------------------------------------------
(* The game loop: ticks while the level timer has not expired, then the    *)
(* level transition.  Only the game state is kept; the call record is not. *)

(* no zone, or the zone with the highest rate *)
LoopZones == {"null", "barn"}

(* the shortest and the longest tick: 0.1 s and 1 s *)
LoopDTs == {1, 10}

InitLoop ==
    /\ state = createInitialState
    /\ fn = "gameLoop"
    /\ args = NoArgs
    /\ ret = "none"
    /\ elapsed = 0
    /\ ticks = 0
    /\ mem = NoMem

LoopTick ==
    /\ ~checkLevelComplete(state.levelTime)
    /\ \E zone \in LoopZones, dt \in LoopDTs :
         /\ state' = [state EXCEPT
                        !.needs     = updateNeeds(state.needs, zone, state.level, dt),
                        !.levelTime = updateLevelTimer(state.levelTime, dt)]
         /\ elapsed' = elapsed + dt
    /\ UNCHANGED <<fn, args, ret, ticks, mem>>

LoopNextLevel ==
    /\ checkLevelComplete(state.levelTime)
    /\ state.level < MaxLevel
    /\ state' = createNextLevelState(state)
    /\ elapsed' = 0
    /\ UNCHANGED <<fn, args, ret, ticks, mem>>

NextLoop == LoopTick \/ LoopNextLevel

SpecLoop == InitLoop /\ [][NextLoop]_vars

----------------------------------------------------------------------------
(* Properties.  The expected values are written out with the numbers of    *)
(* the specification, not with the operators above.                        *)

FourZones == {"lake", "field", "barn", "play"}

(* the need a zone replenishes and its rate per second at level 1 *)
ExpectedNeed(zone) ==
    CASE zone = "lake"  -> "thirst"
      [] zone = "field" -> "hunger"
      [] zone = "barn"  -> "energy"
      [] zone = "play"  -> "fun"
      [] OTHER          -> "no need"

ExpectedRate(zone) ==
    CASE zone = "lake"  -> 6
      [] zone = "field" -> 6
      [] zone = "barn"  -> 8
      [] zone = "play"  -> 6
      [] OTHER          -> 0

ExpectedDrain(level, dt) == 1 * (10 + (level - 1) * 8) * dt

ExpectedRecharge(zone, level, dt) == ExpectedRate(zone) * (10 + (level - 1) * 3) * dt

Within(v) == 0 <= v /\ v <= 10000

Cut(v) == IF v < 0 THEN 0 ELSE IF v > 10000 THEN 10000 ELSE v

Full == [hunger |-> 10000, thirst |-> 10000, energy |-> 10000, fun |-> 10000]

(* C1: in every state of a session (ticks with any zone and any dt >= 0,   *)
(* level transitions, monster-chase transitions) each of the four needs    *)
(* is within [0, 100].                                                     *)
C1_NeedsInRange ==
    \A k \in NeedTypes : 0 <= state.needs[k] /\ state.needs[k] <= 10000

(* a tick after a level transition and a chase transition in which one     *)
(* need was cut at 0 and another at 100 *)
C1_Witness ==
    /\ fn = "updateNeeds"
    /\ args.dt > 0
    /\ state.level >= 2
    /\ state.eaten
    /\ \E k \in NeedTypes : state.needs[k] = 0
    /\ \E k \in NeedTypes : state.needs[k] = 10000

(* C2: updateNeeds is drain, then recharge of the drained result: it       *)
(* equals applyRecharge(applyDrain(needs)), the mapped need ends at        *)
(* min(100, max(0, v - drain) + recharge) and every other need at the      *)
(* clamped v - drain.                                                      *)
C2_DrainThenRecharge ==
    fn = "updateNeeds" =>
        LET n == state.needs
            l == state.level
            d == ExpectedDrain(l, args.dt)
            r == ExpectedRecharge(args.zone, l, args.dt)
        IN  /\ ret = applyRecharge(applyDrain(n, l, args.dt), args.zone, l, args.dt)
            /\ \A k \in NeedTypes :
                 ret[k] = IF k = ExpectedNeed(args.zone)
                          THEN MathMin(10000, MathMax(0, n[k] - d) + r)
                          ELSE Cut(n[k] - d)

(* a call whose result differs from the recharge-then-drain value *)
C2_Witness ==
    /\ fn = "updateNeeds"
    /\ args.zone \in FourZones
    /\ args.dt > 0
    /\ \A k \in NeedTypes : Within(state.needs[k])
    /\ ret /= applyDrain(applyRecharge(state.needs, args.zone, state.level, args.dt),
                         state.level, args.dt)

(* C3: for needs within [0, 100], level >= 1 and dt >= 0, applyDrain       *)
(* returns each field as max(0, v - 1.0 * (1 + (level-1) * 0.80) * dt),    *)
(* which is within [0, 100] and not above the input field.                 *)
C3_DrainResult ==
    (fn = "applyDrain" /\ \A k \in NeedTypes : Within(state.needs[k])) =>
        \A k \in NeedTypes :
            /\ ret[k] = MathMax(0, state.needs[k] - ExpectedDrain(state.level, args.dt))
            /\ Within(ret[k])
            /\ ret[k] <= state.needs[k]

(* a drain above level 1 that cut one need at 0 and lowered another *)
C3_Witness ==
    /\ fn = "applyDrain"
    /\ args.dt > 0
    /\ state.level >= 2
    /\ \A k \in NeedTypes : Within(state.needs[k])
    /\ \E k \in NeedTypes :
         /\ state.needs[k] > 0
         /\ state.needs[k] < ExpectedDrain(state.level, args.dt)
         /\ ret[k] = 0
    /\ \E k \in NeedTypes : ret[k] > 0 /\ ret[k] < state.needs[k]

(* C4: applyRecharge changes at most the need mapped to the zone and       *)
(* returns the other three fields equal to the input; for the absent zone  *)
(* and for a tag outside the four, all four fields are returned unchanged. *)
C4_RechargeFrame ==
    fn = "applyRecharge" =>
        /\ \A k \in NeedTypes :
             k /= ExpectedNeed(args.zone) => ret[k] = state.needs[k]
        /\ args.zone \notin FourZones => ret = state.needs

(* a recharge that raised the mapped need beside a field outside [0, 100] *)
C4_Witness ==
    /\ fn = "applyRecharge"
    /\ args.zone \in FourZones
    /\ args.dt > 0
    /\ ret[ExpectedNeed(args.zone)] > state.needs[ExpectedNeed(args.zone)]
    /\ \E k \in NeedTypes : k /= ExpectedNeed(args.zone) /\ ~Within(state.needs[k])

(* C5: checkGameOver is true if and only if at least one need is <= 0.     *)
C5_GameOverIff ==
    fn = "checkGameOver" =>
        LET n == state.needs
        IN  /\ (n.hunger <= 0 \/ n.thirst <= 0 \/ n.energy <= 0 \/ n.fun <= 0)
                 => ret = TRUE
            /\ (n.hunger > 0 /\ n.thirst > 0 /\ n.energy > 0 /\ n.fun > 0)
                 => ret = FALSE

(* one need exactly 0, the other three positive, and the answer is true *)
C5_Witness ==
    /\ fn = "checkGameOver"
    /\ ret = TRUE
    /\ Cardinality({k \in NeedTypes : state.needs[k] = 0}) = 1
    /\ Cardinality({k \in NeedTypes : state.needs[k] > 0}) = 3

(* C6: createNextLevelState returns level + 1, all needs 100, levelTime    *)
(* 30, status none, eaten false, monster {x: -20, y: 50, chomp: false},    *)
(* and the unicorn position of its input.                                  *)
C6_NextLevelResult ==
    fn = "createNextLevelState" =>
        ret = [x         |-> state.x,
               y         |-> state.y,
               needs     |-> Full,
               level     |-> state.level + 1,
               levelTime |-> 300,
               status    |-> "null",
               eaten     |-> FALSE,
               monster   |-> [x |-> -20, y |-> 50, chomp |-> FALSE]]

(* a transition from a state that differs from a fresh one in every field *)
C6_Witness ==
    /\ fn = "createNextLevelState"
    /\ state.x = 75 /\ state.y = 80
    /\ state.level = 3
    /\ state.needs = [hunger |-> 2000, thirst |-> 3000, energy |-> 4000, fun |-> 5000]
    /\ state.levelTime = 0
    /\ state.status = "nextlevel"
    /\ state.eaten
    /\ state.monster = [x |-> 50, y |-> 50, chomp |-> TRUE]
    /\ ret.level = 4

(* C7: createMonsterChaseState returns eaten = true and monster            *)
(* {x: -20, y: s.y, chomp: false} and leaves needs, level, levelTime,      *)
(* status, x and y as they are in s, whether or not a need of s is <= 0.   *)
C7_MonsterChaseResult ==
    fn = "createMonsterChaseState" =>
        ret = [x         |-> state.x,
               y         |-> state.y,
               needs     |-> state.needs,
               level     |-> state.level,
               levelTime |-> state.levelTime,
               status    |-> state.status,
               eaten     |-> TRUE,
               monster   |-> [x |-> -20, y |-> state.y, chomp |-> FALSE]]

(* a chase started while every need is above 0 *)
C7_Witness ==
    /\ fn = "createMonsterChaseState"
    /\ \A k \in NeedTypes : state.needs[k] > 0
    /\ ~state.eaten
    /\ state.y = 80
    /\ state.monster.chomp
    /\ state.status = "nextlevel"
    /\ ret.eaten

(* C8 as stated: every monster the engine creates or resets has x = -20,   *)
(* chomp = false and y equal to the unicorn's y of the returned state.     *)
C8_MonsterAtUnicornY ==
    fn \in {"createInitialState", "createNextLevelState", "createMonsterChaseState"} =>
        /\ ret.monster.x = -20
        /\ ret.monster.chomp = FALSE
        /\ ret.monster.y = ret.y

(* C8 amended: every monster the engine creates or resets has x = -20 and  *)
(* chomp = false; its y is the unicorn's y in createMonsterChaseState and  *)
(* the fixed 50 in createInitialState and createNextLevelState.            *)
C8_MonsterReset ==
    fn \in {"createInitialState", "createNextLevelState", "createMonsterChaseState"} =>
        /\ ret.monster.x = -20
        /\ ret.monster.chomp = FALSE
        /\ ret.monster.y = IF fn = "createMonsterChaseState" THEN ret.y ELSE 50

(* a chase whose monster starts at a unicorn height other than 50 *)
C8_Witness ==
    /\ fn = "createMonsterChaseState"
    /\ ret.y = 80
    /\ ret.monster = [x |-> -20, y |-> 80, chomp |-> FALSE]
    /\ state.monster = [x |-> 50, y |-> 50, chomp |-> TRUE]

(* C9: from a fresh level, levelTime is 30 minus the sum of the dt of the  *)
(* ticks, unclamped, and checkLevelComplete is true exactly when that      *)
(* value is <= 0.                                                          *)
C9_TimerIsThirtyMinusSum ==
    /\ state.levelTime = 300 - elapsed
    /\ checkLevelComplete(state.levelTime) <=> (300 - elapsed <= 0)

(* ticks of a level that sum to more than 30 s *)
C9_Witness ==
    /\ fn = "updateNeeds"
    /\ ticks = 2
    /\ elapsed > 300
    /\ state.levelTime < 0
    /\ checkLevelComplete(state.levelTime)

(* C10: whenever neither the drain step nor the recharge step of           *)
(* updateNeeds is cut at 0 or 100 for the need, calculateNetNeedChange     *)
(* equals updateNeeds(needs)[needType] - needs[needType]: minus the drain, *)
(* plus the recharge only when the zone maps to that need.                 *)
C10_NetChangeIsStepDifference ==
    fn = "calculateNetNeedChange" =>
        LET v       == state.needs[args.needType]
            d       == ExpectedDrain(state.level, args.dt)
            r       == IF ExpectedNeed(args.zone) = args.needType
                       THEN ExpectedRecharge(args.zone, state.level, args.dt)
                       ELSE 0
            stepped == updateNeeds(state.needs, args.zone, state.level, args.dt)
        IN  (Within(v - d) /\ Within(v - d + r)) =>
                /\ ret = stepped[args.needType] - v
                /\ ret = r - d

(* a net gain of a need in its own zone, no bound reached *)
C10_Witness ==
    /\ fn = "calculateNetNeedChange"
    /\ args.dt > 0
    /\ ExpectedNeed(args.zone) = args.needType
    /\ state.level >= 2
    /\ LET v == state.needs[args.needType]
           d == ExpectedDrain(state.level, args.dt)
           r == ExpectedRecharge(args.zone, state.level, args.dt)
       IN  0 < v - d /\ v - d + r < 10000 /\ ret = r - d /\ ret > 0

(* C11: both multipliers are 1 at level 1; from each level to the next the *)
(* drain multiplier rises by exactly 0.80 and the recharge multiplier by   *)
(* exactly 0.30; so the drain multiplier exceeds the recharge multiplier   *)
(* at every level above 1.                                                 *)
C11_MultiplierSteps ==
    /\ fn = "calculateDrainMultiplier" =>
         /\ state.level = 1 => ret = 10
         /\ state.level > 1 =>
              /\ ret - calculateDrainMultiplier(state.level - 1) = 8
              /\ ret > calculateRechargeMultiplier(state.level)
    /\ fn = "calculateRechargeMultiplier" =>
         /\ state.level = 1 => ret = 10
         /\ state.level > 1 =>
              /\ ret - calculateRechargeMultiplier(state.level - 1) = 3
              /\ ret < calculateDrainMultiplier(state.level)
    /\ fn \in {"calculateDrainMultiplier", "calculateRechargeMultiplier"} =>
         \A L \in 2..HighLevel :
            /\ calculateDrainMultiplier(L) - calculateDrainMultiplier(L - 1) = 8
            /\ calculateRechargeMultiplier(L) - calculateRechargeMultiplier(L - 1) = 3
            /\ calculateDrainMultiplier(L) > calculateRechargeMultiplier(L)

(* the drain multiplier of a level above 1, larger than the recharge one *)
C11_Witness ==
    /\ fn = "calculateDrainMultiplier"
    /\ state.level = 3
    /\ ret = 26
    /\ calculateRechargeMultiplier(state.level) = 16

(* C13 as stated: for needs that may lie below 0 or above 100, each of     *)
(* applyDrain, applyRecharge and updateNeeds returns all four fields       *)
(* within [0, 100].                                                        *)
C13_AllFunctionsClamp ==
    fn \in {"applyDrain", "applyRecharge", "updateNeeds"} =>
        \A k \in NeedTypes : Within(ret[k])

(* C13 amended: applyDrain and updateNeeds return all four fields within   *)
(* [0, 100] whatever the input; applyRecharge returns the need mapped to   *)
(* the zone within [0, 100] and every other field as it was given, also    *)
(* when that is outside [0, 100].                                          *)
C13_ClampWhereWritten ==
    /\ fn \in {"applyDrain", "updateNeeds"} =>
         \A k \in NeedTypes : Within(ret[k])
    /\ fn = "applyRecharge" =>
         \A k \in NeedTypes :
            IF k = ExpectedNeed(args.zone)
            THEN ret[k] = Cut(state.needs[k]
                              + ExpectedRecharge(args.zone, state.level, args.dt))
            ELSE ret[k] = state.needs[k]

(* a recharge in a zone on needs outside [0, 100]: the mapped need is      *)
(* brought into range, another field is returned outside it                *)
C13_Witness ==
    /\ fn = "applyRecharge"
    /\ args.zone \in FourZones
    /\ ~Within(state.needs[ExpectedNeed(args.zone)])
    /\ Within(ret[ExpectedNeed(args.zone)])
    /\ \E k \in NeedTypes : ~Within(ret[k])

(* C14: getZoneDisplay returns the fixed label for lake, field, barn and   *)
(* play, and null for the absent zone and for every other tag, names of    *)
(* built-in object properties such as 'constructor' included.              *)
C14_LabelOrNull ==
    fn = "getZoneDisplay" =>
        ret = CASE args.zone = "lake"  -> "Lake"
                [] args.zone = "field" -> "Field"
                [] args.zone = "barn"  -> "Barn"
                [] args.zone = "play"  -> "Play"
                [] OTHER               -> "null"

C15_BothConditionsTogether ==
    (/\ ticks < 4
     /\ elapsed >= 300
     /\ ExpectedDrain(state.level, elapsed) >= 10000) =>
        /\ checkGameOver(state.needs)
        /\ checkLevelComplete(state.levelTime)

(* the state after two ticks of 20 s in the lake at level 3: the level is  *)
(* lost and complete at once, with thirst still full                       *)
C15_Witness ==
    /\ fn = "updateNeeds"
    /\ state.level = 3
    /\ ticks = 2
    /\ elapsed = 400
    /\ state.needs.thirst = 10000
    /\ checkGameOver(state.needs)
    /\ checkLevelComplete(state.levelTime)

(* C17: at levels 1, 2 and 3, in a game loop that ticks only while         *)
(* levelTime > 0 with dt in (0, 1] and any zone, no need is <= 0 in any    *)
(* state up to and including the one in which the level is complete: each  *)
(* need is at least 100 minus the drain of the elapsed time, and that is   *)
(* above 0.                                                                *)
C17_NoLossBeforeTimerExpires ==
    state.level <= 3 =>
        /\ ~checkGameOver(state.needs)
        /\ \A k \in NeedTypes :
             state.needs[k] >= 10000 - ExpectedDrain(state.level, elapsed)
        /\ 10000 - ExpectedDrain(state.level, elapsed) > 0

(* the end of level 3 when the last tick of 1 s began with 0.1 s left:    *)
(* 30.9 s have drained hunger to 19.66, and energy was fed in the barn     *)
C17_Witness ==
    /\ state.level = 3
    /\ checkLevelComplete(state.levelTime)
    /\ state.levelTime = -9
    /\ elapsed = 309
    /\ state.needs.hunger = 1966
    /\ state.needs.energy > state.needs.hunger

(* C12: no engine operation mutates its input: after applyDrain,           *)
(* applyRecharge, updateNeeds, createNextLevelState or                     *)
(* createMonsterChaseState returns, the needs object or GameState object   *)
(* passed in, with its nested needs and monster objects, holds the field   *)
(* values it held before the call; the result is another object.           *)
C12_InputsNotMutated ==
    fn \in {"applyDrain", "applyRecharge", "updateNeeds",
            "createNextLevelState", "createMonsterChaseState"} =>
        /\ \A a \in 1..3 : mem.heap[a] = HeapOf(state)[a]
        /\ mem.ref \notin 1..3
        /\ ret = IF fn \in {"createNextLevelState", "createMonsterChaseState"}
                 THEN DerefState(mem.heap, mem.ref)
                 ELSE mem.heap[mem.ref]

(* a recharge that wrote the mapped need, into a copy *)
C12_Witness ==
    /\ fn = "applyRecharge"
    /\ args.zone = "play"
    /\ mem.heap[mem.ref].fun > state.needs.fun
    /\ mem.heap[2] = state.needs
    /\ Len(mem.heap) = 4

====
